---- MODULE Spec2Model ----
(***************************************************************************)
(* Model of src/main.rs: the smoothing playground.  The program is one     *)
(* frame loop (main) over the state goal, value, mode (the five Function   *)
(* values and the selected index), target_fps, history and sim; the pure   *)
(* functions lerp, Function::execute and simulate are operators.           *)
(*                                                                         *)
(* All numbers of the program are f32.  An f32 is modelled by its exact    *)
(* value, the pair <<m, e>> standing for m * 2^e with m odd (zero is       *)
(* <<0, 0>>), and every arithmetic operation rounds its exact result to    *)
(* the nearest f32, ties to even, with a 24 bit significand and gradual    *)
(* underflow at 2^-149, as the hardware does.  Infinities, NaN and the     *)
(* sign of zero are not modelled: no operation of the model overflows or   *)
(* divides by zero, and -0.0 == 0.0 in Rust.                               *)
(***************************************************************************)
EXTENDS Integers, Sequences, FiniteSets, TLC

(***************************************************************************)
(* f32 arithmetic                                                          *)
(***************************************************************************)
\* Every intermediate value is handed on as an operator argument, so that
\* each step of an operation is written, and evaluated, once.
Pow2(n) == 2 ^ n

Abs(n) == IF n < 0 THEN -n ELSE n

Sign(n) == IF n < 0 THEN -1 ELSE 1

Max(a, b) == IF a >= b THEN a ELSE b

\* The number of bits of n, for 0 <= n < 2^31, by bisection.
BitLen2(n) == IF n >= 2 THEN 2 ELSE n

BitLen4(n) == IF n >= 4 THEN 2 + BitLen2(n \div 4) ELSE BitLen2(n)

BitLen8(n) == IF n >= 16 THEN 4 + BitLen4(n \div 16) ELSE BitLen4(n)

BitLen16(n) == IF n >= 256 THEN 8 + BitLen8(n \div 256) ELSE BitLen8(n)

BitLen(n) == IF n >= 65536 THEN 16 + BitLen16(n \div 65536) ELSE BitLen16(n)

\* The number of low zero bits of m # 0, |m| < 2^31, by bisection.
LowZeros2(m) == IF m % 2 = 0 THEN 1 ELSE 0

LowZeros4(m) == IF m % 4 = 0 THEN 2 + LowZeros2(m \div 4) ELSE LowZeros2(m)

LowZeros8(m) == IF m % 16 = 0 THEN 4 + LowZeros4(m \div 16) ELSE LowZeros4(m)

LowZeros16(m) == IF m % 256 = 0 THEN 8 + LowZeros8(m \div 256) ELSE LowZeros8(m)

LowZeros(m) == IF m % 65536 = 0 THEN 16 + LowZeros16(m \div 65536) ELSE LowZeros16(m)

\* m * 2^e with the z low zero bits of m moved into the exponent
Strip(m, e, z) == <<m \div Pow2(z), e + z>>

\* The canonical pair of m * 2^e, |m| < 2^31: the low zero bits of the
\* significand moved into the exponent, so that it is odd.
Canon(m, e) ==
    IF m = 0 THEN <<0, 0>>
    ELSE IF m % 2 = 1 THEN <<m, e>>
    ELSE Strip(m, e, LowZeros(m))

SigBits == 24

MinExp == -149

\* Round to nearest, ties to even: rem is what lies below the kept bits,
\* half the weight of half a unit of them (0 when nothing lies below).
RoundsUp(rem, half, odd, sticky) ==
    /\ half > 0
    /\ \/ rem > half
       \/ rem = half /\ (sticky \/ odd)

\* sign * (M + s) * 2^E with the sh low bits of M rounded away.
RoundAt(sign, M, E, sticky, sh) ==
    IF sh > 30 THEN <<0, 0>>
    ELSE Canon(sign * ((M \div Pow2(sh))
                       + (IF RoundsUp(M % Pow2(sh), Pow2(sh) \div 2,
                                      (M \div Pow2(sh)) % 2 = 1, sticky)
                          THEN 1 ELSE 0)),
               E + sh)

\* sign * (M + s) * 2^E rounded to f32, where 0 <= M < 2^30 and sticky says
\* whether a nonzero fraction 0 < s < 1 was cut off below M.
RoundF32(sign, M, E, sticky) ==
    RoundAt(sign, M, E, sticky, Max(Max(E + BitLen(M) - SigBits, MinExp) - E, 0))

Zero == <<0, 0>>

One == <<1, 0>>

FromInt(n) == Canon(n, 0)

Neg(x) == <<-x[1], x[2]>>

\* The position of the leading bit: |x| < 2^Top(x).
Top(x) == x[2] + BitLen(Abs(x[1]))

\* |x| in units of 2^base, cut to an integer, for base <= Top(x) - 3.
Aligned(x, base) ==
    IF x[2] >= base THEN Abs(x[1]) * Pow2(x[2] - base)
    ELSE IF base - x[2] > SigBits THEN 0
    ELSE Abs(x[1]) \div Pow2(base - x[2])

\* Whether Aligned(x, base) cut something off.
Cut(x, base) ==
    IF x[2] >= base THEN FALSE
    ELSE IF base - x[2] > SigBits THEN TRUE
    ELSE Abs(x[1]) % Pow2(base - x[2]) # 0

\* The sum i, in units of 2^base, of two operands of signs sx and sy, of
\* which at most one, the smaller, was cut: the cut takes |i| away from an
\* integer when it pulls toward zero.
AddCut(sx, sy, i, base, cutx, cuty) ==
    RoundF32(Sign(i),
             Abs(i) - (IF (cutx \/ cuty) /\ Sign(i) # (IF cutx THEN sx ELSE sy)
                       THEN 1 ELSE 0),
             base, cutx \/ cuty)

AddAt(x, y, base) ==
    AddCut(Sign(x[1]), Sign(y[1]),
           Sign(x[1]) * Aligned(x, base) + Sign(y[1]) * Aligned(y, base),
           base, Cut(x, base), Cut(y, base))

Add(x, y) ==
    IF x[1] = 0 THEN y
    ELSE IF y[1] = 0 THEN x
    ELSE AddAt(x, y, Max(Top(x), Top(y)) - 27)

Sub(x, y) == Add(x, Neg(y))

\* (hi * 2^24 + lo) * 2^E with the low s bits cut.
MulCut(sign, hi, lo, E, s) ==
    RoundF32(sign, hi * Pow2(24 - s) + (lo \div Pow2(s)), E + s, lo % Pow2(s) # 0)

\* (ac * 2^24 + mid * 2^12 + low) * 2^E as hi * 2^24 + lo
MulMid(sign, ac, mid, low, E) ==
    MulCut(sign, ac + (mid \div 4096), (mid % 4096) * 4096 + low, E,
           Max(BitLen(ac + (mid \div 4096)) - 3, 0))

\* (a * 2^12 + b) * (c * 2^12 + d) * 2^E
MulLimbs(sign, a, b, c, d, E) ==
    MulMid(sign, a * c, a * d + b * c + ((b * d) \div 4096), (b * d) % 4096, E)

Mul(x, y) ==
    IF x[1] = 0 \/ y[1] = 0 THEN Zero
    ELSE MulLimbs(Sign(x[1]) * Sign(y[1]),
                  Abs(x[1]) \div 4096, Abs(x[1]) % 4096,
                  Abs(y[1]) \div 4096, Abs(y[1]) % 4096,
                  x[2] + y[2])

\* Long division, six quotient bits at a time: <<quotient, remainder>> of
\* (q * b + r) * 2^(6 n) by b, where r < b < 2^24.
RECURSIVE DivSteps(_, _, _, _)
DivSteps(q, r, b, n) ==
    IF n = 0 THEN <<q, r>>
    ELSE DivSteps(q * 64 + ((r * 64) \div b), (r * 64) % b, b, n - 1)

\* qr = <<floor(a * 2^24 / b), what is left>>: two more quotient bits, rounded.
DivRound(sign, qr, b, E) ==
    RoundF32(sign, qr[1] * 4 + ((qr[2] * 4) \div b), E, (qr[2] * 4) % b # 0)

\* a / b * 2^(E + 26) for 2^23 <= a, b < 2^24
DivNorm(sign, a, b, E) == DivRound(sign, DivSteps(a \div b, a % b, b, 4), b, E)

\* x / y with the significands shifted up by sa and sb to 24 bits
DivShift(x, y, sa, sb) ==
    DivNorm(Sign(x[1]) * Sign(y[1]), Abs(x[1]) * Pow2(sa), Abs(y[1]) * Pow2(sb),
            (x[2] - sa) - (y[2] - sb) - 26)

Div(x, y) ==
    IF x[1] = 0 THEN Zero
    ELSE DivShift(x, y, SigBits - BitLen(Abs(x[1])), SigBits - BitLen(Abs(y[1])))

\* |x| < |y| for nonzero x and y with leading bits at tx and ty
LessAbs(x, y, tx, ty) ==
    IF tx # ty THEN tx < ty
    ELSE Aligned(x, tx - SigBits) < Aligned(y, ty - SigBits)

\* x < y: by sign, then by leading bit, then by significand.
Less(x, y) ==
    IF x[1] = 0 THEN y[1] > 0
    ELSE IF y[1] = 0 THEN x[1] < 0
    ELSE IF Sign(x[1]) # Sign(y[1]) THEN x[1] < 0
    ELSE IF x = y THEN FALSE
    ELSE (x[1] > 0) = LessAbs(x, y, Top(x), Top(y))

\* f32::clamp(x, lo, hi)
Clamp(x, lo, hi) == IF Less(x, lo) THEN lo ELSE IF Less(hi, x) THEN hi ELSE x

\* `x as u32`: toward zero, negative values to 0.
AsU32(x) ==
    IF x[1] <= 0 THEN 0
    ELSE IF x[2] >= 0 THEN x[1] * Pow2(x[2])
    ELSE IF -x[2] > 30 THEN 0
    ELSE x[1] \div Pow2(-x[2])

(***************************************************************************)
(* The numbers of the source, each the f32 nearest to its decimal literal  *)
(***************************************************************************)
Two == <<1, 1>>

Half == <<1, -1>>

Five == <<5, 0>>

Ten == <<5, 1>>

Fifteen == <<15, 0>>

Twenty == <<5, 2>>

Thirty == <<15, 1>>

Sixty == <<15, 2>>

\* 0.01f32, the lower end of the four parameter sliders
Hundredth == <<5368709, -29>>

\* 0.1f32, the lower end of the "Sim time" slider
Tenth == <<13421773, -27>>

\* 0.05f32
Twentieth == <<13421773, -28>>

\* 0.001f32
Thousandth == <<8589935, -33>>

Thousand == <<125, 3>>

\* 1e-5f32
Epsilon == <<2748779, -38>>

\* f32::ln(2.0) = 0.6931472
Ln2 == <<1453635, -21>>

MAX_HISTORY == 240

\* screen_height() of the window, 800 x 600 unless configured otherwise
ScreenHeight == FromInt(600)

(***************************************************************************)
(* f32::exp and f32::exp2 at the arguments that the frame times, frame     *)
(* rates, half lives and rates of this model produce.  Each entry is the   *)
(* f32 nearest to the exact value, which lies at least 0.06 ulp away from  *)
(* the next rounding boundary.  An argument outside the table is an error. *)
(***************************************************************************)
ExpTable ==
    <<-8863421, -7>> :> <<0, 0>> @@
    <<-1419537, -10>> :> <<0, 0>> @@
    <<-11356409, -14>> :> <<0, 0>> @@
    <<-9076143, -17>> :> <<2247509, -121>> @@
    <<-14521829, -21>> :> <<8446893, -33>> @@
    <<-2420305, -19>> :> <<10617881, -30>> @@
    <<-11628847, -23>> :> <<8388841, -25>> @@
    <<-2420305, -21>> :> <<10581187, -25>> @@
    <<-2907241, -22>> :> <<4194333, -23>> @@
    <<-4651539, -25>> :> <<14605455, -24>> @@
    <<-12404105, -27>> :> <<15296193, -24>> @@
    <<-9303171, -27>> :> <<15653707, -24>> @@
    <<-9293971, -27>> :> <<3913695, -22>> @@
    <<-12404229, -28>> :> <<16019591, -24>> @@
    <<-12404105, -29>> :> <<16394031, -24>> @@
    <<-12404229, -30>> :> <<16584515, -24>> @@
    <<-2976985, -31>> :> <<8376987, -23>> @@
    <<-11908059, -34>> :> <<16765591, -24>>

Exp2Table ==
    <<-1875, 4>> :> <<0, 0>> @@
    <<-125, 3>> :> <<0, 0>> @@
    <<-15, 1>> :> <<1, -30>> @@
    <<-5, 1>> :> <<1, -10>> @@
    <<-3, 0>> :> <<1, -3>> @@
    <<-1, 1>> :> <<1, -2>> @@
    <<-1, 0>> :> <<1, -1>> @@
    <<-1, -1>> :> <<11863283, -24>> @@
    <<-13421773, -27>> :> <<244589, -18>> @@
    <<-8947849, -27>> :> <<125153, -17>> @@
    <<-1006633, -25>> :> <<8215973, -23>> @@
    <<-8947849, -29>> :> <<16584513, -24>> @@
    <<-5368709, -29>> :> <<16661327, -24>> @@
    <<-8589935, -33>> :> <<16765591, -24>> @@
    <<-5726623, -33>> :> <<16769465, -24>> @@
    <<-5726623, -35>> :> <<8387639, -23>> @@
    <<-10995117, -40>> :> <<4194275, -22>>

Exp(x) == IF x = Zero THEN One ELSE ExpTable[x]

Exp2(x) == IF x = Zero THEN One ELSE Exp2Table[x]

(***************************************************************************)
(* lerp, Function, Functions                                               *)
(***************************************************************************)
lerp(from, to, t) == Add(Mul(from, Sub(One, t)), Mul(to, t))

Exact == [name |-> "Exact"]

Lerp(factor) == [name |-> "Lerp", factor |-> factor]

DamperBad(damper) == [name |-> "DamperBad", damper |-> damper]

DamperExact(half_life) == [name |-> "Damper Exact", half_life |-> half_life]

DamperExact2(rate) == [name |-> "Damper Exact 2", rate |-> rate]

\* execute with the operands of "Damper Exact 2" in the order of the others
executeUnswapped(f, from, to, dt) ==
    CASE f.name = "Exact" -> to
      [] f.name = "Lerp" -> lerp(from, to, f.factor)
      [] f.name = "DamperBad" -> lerp(from, to, Clamp(Mul(f.damper, dt), Zero, One))
      [] f.name = "Damper Exact" ->
            lerp(from, to,
                 Sub(One, Exp(Div(Neg(Mul(Ln2, dt)), Add(f.half_life, Epsilon)))))
      [] f.name = "Damper Exact 2" -> lerp(from, to, Exp2(Mul(Neg(f.rate), dt)))

execute(f, from, to, dt) ==
    CASE f.name = "Exact" -> to
      [] f.name = "Lerp" -> lerp(from, to, f.factor)
      [] f.name = "DamperBad" -> lerp(from, to, Clamp(Mul(f.damper, dt), Zero, One))
      [] f.name = "Damper Exact" ->
            lerp(from, to,
                 Sub(One, Exp(Div(Neg(Mul(Ln2, dt)), Add(f.half_life, Epsilon)))))
      [] f.name = "Damper Exact 2" -> lerp(to, from, Exp2(Mul(Neg(f.rate), dt)))

\* Functions::new; selected_index counts from 0 as in the source, fns[i + 1]
\* is the source's fns[i].
FunctionsNew ==
    [fns |-> <<Exact, Lerp(Half), DamperBad(Five), DamperExact(One), DamperExact2(One)>>,
     selected_index |-> 0]

current_function(m) == m.fns[m.selected_index + 1]

\* The slider of Function::ui writes x into the one field of the variant.
SetParameter(f, x) ==
    CASE f.name = "Exact" -> f
      [] f.name = "Lerp" -> Lerp(x)
      [] f.name = "DamperBad" -> DamperBad(x)
      [] f.name = "Damper Exact" -> DamperExact(x)
      [] f.name = "Damper Exact 2" -> DamperExact2(x)

(***************************************************************************)
(* Simulation, CompareSettings                                             *)
(***************************************************************************)
Live == [name |-> "Live"]

Compare(settings) == [name |-> "Compare", settings |-> settings]

\* CompareSettings::default with the two frame rates exchanged
CompareSettingsExchanged ==
    [first_framerate |-> Fifteen, second_framerate |-> Sixty, simulating_time |-> Two]

CompareSettingsDefault ==
    [first_framerate |-> Sixty, second_framerate |-> Fifteen, simulating_time |-> Two]

(***************************************************************************)
(* simulate: the values it collects, with the step count it computed.      *)
(***************************************************************************)
\* The loop of lines 324-327: n times current = f.execute(current, goal,
\* time_step); values.push(current).  The values pushed, the first half of the
\* iterations before the second.
RECURSIVE SimulateLoop(_, _, _, _, _)
SimulateLoop(f, current, goal, time_step, n) ==
    IF n = 0 THEN <<>>
    ELSE IF n = 1 THEN <<execute(f, current, goal, time_step)>>
    ELSE LET first == SimulateLoop(f, current, goal, time_step, n \div 2)
         IN first \o SimulateLoop(f, first[Len(first)], goal, time_step, n - (n \div 2))

\* simulate with the loop bound included: for _ in 0..=steps
simulateInclusive(target_duration, frame_rate, start, goal, f) ==
    LET time_step == Div(One, frame_rate)
        steps == Div(target_duration, time_step)
    IN [frame_rate |-> frame_rate,
        goal |-> goal,
        time_step |-> time_step,
        steps |-> steps,
        values |-> <<start>> \o SimulateLoop(f, start, goal, time_step, AsU32(steps) + 1)]

\* simulate stepping at the display's 60 frames a second whatever frame_rate is
simulateFixedStep(target_duration, frame_rate, start, goal, f) ==
    LET time_step == Div(One, Sixty)
        steps == Div(target_duration, time_step)
    IN [frame_rate |-> frame_rate,
        goal |-> goal,
        time_step |-> time_step,
        steps |-> steps,
        values |-> <<start>> \o SimulateLoop(f, start, goal, time_step, AsU32(steps))]

simulate(target_duration, frame_rate, start, goal, f) ==
    LET time_step == Div(One, frame_rate)
        steps == Div(target_duration, time_step)
    IN [frame_rate |-> frame_rate,
        goal |-> goal,
        time_step |-> time_step,
        steps |-> steps,
        values |-> <<start>> \o SimulateLoop(f, start, goal, time_step, AsU32(steps))]

\* The plotting loop of lines 333-346 reads values[idx] and values[idx + 1]
\* for idx in 0..values.len() - 1; the indices it reads, counted from 0.
PlotReads(values) ==
    UNION {{idx, idx + 1} : idx \in 0..(Len(values) - 1) - 1}

\* The Compare arm of main, lines 277-299: both runs start at screen_height()
\* and aim at the local goal 0.0.
CompareRuns(settings, f) ==
    <<simulate(settings.simulating_time, settings.first_framerate, ScreenHeight, Zero, f),
      simulate(settings.simulating_time, settings.second_framerate, ScreenHeight, Zero, f)>>

(***************************************************************************)
(* The frame loop of main                                                  *)
(***************************************************************************)
VARIABLES
    goal,           \* main's goal
    value,          \* main's value
    mode,           \* main's mode: Functions
    target_fps,     \* main's target_fps
    history,        \* main's history, front first
    sim,            \* main's sim: Simulation
    mouse,          \* the right button and pointer height as last polled
    event,          \* what the user did in the settings window in the last frame
    frames,         \* iterations of the loop so far
    ticks,          \* iterations that took the Live arm
    origin,         \* for each entry of history the tick that pushed it, 0 if none did
    edited,         \* whether a slider of the Compare settings was ever moved
    entered,        \* how often sim went from Live to Compare
    call            \* a single call of execute or of the Compare arm, see below

vars == <<goal, value, mode, target_fps, history, sim, mouse, event,
          frames, ticks, origin, edited, entered, call>>

\* let center = screen_height() / 2.0
center == Div(ScreenHeight, Two)

NoCall == [op |-> "none"]

InitMain ==
    /\ goal = center
    /\ value = center
    /\ mode = FunctionsNew
    /\ target_fps = Sixty
    /\ history = [i \in 1..MAX_HISTORY |-> center]
    /\ sim = Live
    /\ mouse = [down |-> FALSE, y |-> Zero]
    /\ event = "start"
    /\ frames = 0
    /\ ticks = 0
    /\ origin = [i \in 1..MAX_HISTORY |-> 0]
    /\ edited = FALSE
    /\ entered = 0

Init == InitMain /\ call = NoCall

\* The inputs of a frame.  get_frame_time():
FrameTimes == {Div(One, Sixty)}

\* mouse_position().1 while the right button is down:
MouseYs == {FromInt(100)}

\* Where the user may drop each slider: values within the slider's range.
ParameterValues(f) ==
    CASE f.name = "Exact" -> {}
      [] f.name = "Lerp" -> {Tenth}
      [] f.name = "DamperBad" -> {Twenty}
      [] f.name = "Damper Exact" -> {Hundredth}
      [] f.name = "Damper Exact 2" -> {Thirty}

SettingsValues(field) ==
    CASE field = "simulating_time" -> {Tenth}
      [] field = "first_framerate" -> {Ten}
      [] field = "second_framerate" -> {Ten}

TargetFpsValues == {Thirty}

\* VecDeque::resize(n, fill): cut at the back, or filled up at the back.
Resize(h, n, fill) ==
    IF Len(h) >= n THEN SubSeq(h, 1, n)
    ELSE h \o [i \in 1..(n - Len(h)) |-> fill]

\* push_front without the resize
PushHistoryNoResize(h, v, fill) == <<v>> \o h

\* history.push_front(v); history.resize(MAX_HISTORY, fill)
PushHistory(h, v, fill) == Resize(<<v>> \o h, MAX_HISTORY, fill)

\* goal = mouse_position().1 without the test of the button
SetGoalAlways(g, down, y) == y

\* if is_mouse_button_down(MouseButton::Right) { goal = mouse_position().1 }
SetGoal(g, down, y) == IF down THEN y ELSE g

\* The trace loop of lines 259-275 reads history[i] and history[i + 1] for i in
\* 0..MAX_HISTORY - 1; the indices it reads, counted from 0.
TraceReads == UNION {{i, i + 1} : i \in 0..(MAX_HISTORY - 1) - 1}

\* The Live arm, lines 221-276.
LiveStep(f, dt, down, y) ==
    /\ value' = execute(f, value, goal, dt)
    /\ history' = PushHistory(history, value', center)
    /\ goal' = SetGoal(goal, down, y)
    /\ mouse' = [down |-> down, y |-> y]
    /\ ticks' = ticks + 1
    /\ origin' = PushHistory(origin, ticks', 0)

\* A Compare arm that keeps the trace running: it pushes value as the Live arm does
CompareStepPushes(settings, f) ==
    /\ history' = PushHistory(history, value, center)
    /\ UNCHANGED <<value, goal, mouse, ticks, origin>>

\* The Compare arm, lines 277-299: its start and goal are locals, and
\* simulate works on its arguments and its own values only, so that the arm
\* assigns nothing of main's state; what it draws is `plots` below.
CompareStep(settings, f) ==
    UNCHANGED <<value, history, goal, mouse, ticks, origin>>

\* match sim, lines 220-300, on the sim and mode the settings window left.
Step(sim1, mode1) ==
    IF sim1.name = "Live"
    THEN \E dt \in FrameTimes, down \in BOOLEAN, y \in MouseYs :
            LiveStep(current_function(mode1), dt, down, y)
    ELSE CompareStep(sim1.settings, current_function(mode1))

\* The settings window, lines 177-217: what each thing the user can do there
\* leaves in sim and mode.
SelectLive(s) == Live

SelectCompare(s) == Compare(CompareSettingsDefault)

\* A selection that builds the selected functions anew
SelectFunctionResets(m, idx) == [fns |-> FunctionsNew.fns, selected_index |-> idx]

SelectFunction(m, idx) == [m EXCEPT !.selected_index = idx]

EditParameter(m, x) ==
    [m EXCEPT !.fns[m.selected_index + 1] = SetParameter(@, x)]

EditSettings(s, field, x) == Compare([s.settings EXCEPT ![field] = x])

\* One iteration of the loop in which the user did ev, leaving sim1, mode1 and
\* fps1, and then the arm of match sim.
Frame(limit, ev, sim1, mode1, fps1, edited1) ==
    /\ frames < limit
    /\ frames' = frames + 1
    /\ event' = ev
    /\ sim' = sim1
    /\ mode' = mode1
    /\ target_fps' = fps1
    /\ edited' = edited1
    /\ entered' = IF sim.name = "Live" /\ sim1.name = "Compare" THEN entered + 1 ELSE entered
    /\ Step(sim1, mode1)
    /\ UNCHANGED call

\* A frame in which the user changes nothing: no input, or a click on what is
\* selected already, or a slider left where it was.
FrameIdle(limit) == Frame(limit, "none", sim, mode, target_fps, edited)

\* ui.selectable_value(&mut sim, Simulation::Live, "Live") assigns only when
\* sim differs from Live.
FrameSelectLive(limit) ==
    /\ sim # SelectLive(sim)
    /\ Frame(limit, "select_live", SelectLive(sim), mode, target_fps, edited)

\* The "Compare" label assigns whenever it is clicked, in Compare too.
FrameSelectCompare(limit) ==
    Frame(limit, "select_compare", SelectCompare(sim), mode, target_fps, edited)

FrameSelectFunction(limit) ==
    \E idx \in 0..(Len(mode.fns) - 1) :
        /\ idx # mode.selected_index
        /\ Frame(limit, "select_function", sim, SelectFunction(mode, idx), target_fps, edited)

FrameEditParameter(limit) ==
    \E x \in ParameterValues(current_function(mode)) :
        /\ mode # EditParameter(mode, x)
        /\ Frame(limit, "edit_parameter", sim, EditParameter(mode, x), target_fps, edited)

FrameEditSettings(limit) ==
    /\ sim.name = "Compare"
    /\ \E field \in {"simulating_time", "first_framerate", "second_framerate"} :
         \E x \in SettingsValues(field) :
            /\ sim.settings[field] # x
            /\ Frame(limit, "edit_settings", EditSettings(sim, field, x), mode,
                     target_fps, TRUE)

FrameEditTargetFps(limit) ==
    /\ sim.name = "Live"
    /\ \E x \in TargetFpsValues :
         /\ x # target_fps
         /\ Frame(limit, "edit_target_fps", sim, mode, x, edited)

\* What the frame that led to the state drew in the Compare arm: the two
\* runs of simulate on the settings and the function the frame left, none in
\* the Live arm.
plots ==
    IF sim.name = "Compare"
    THEN CompareRuns(sim.settings, current_function(mode))
    ELSE <<>>

MaxFrames == 4

Next ==
    \/ FrameIdle(MaxFrames)
    \/ FrameSelectLive(MaxFrames)
    \/ FrameSelectCompare(MaxFrames)
    \/ FrameSelectFunction(MaxFrames)
    \/ FrameEditParameter(MaxFrames)
    \/ FrameEditSettings(MaxFrames)
    \/ FrameEditTargetFps(MaxFrames)

Spec == Init /\ [][Next]_vars

(***************************************************************************)
(* The loop left alone in Live mode: frames in which the user changes      *)
(* nothing in the settings window and only moves the goal.                 *)
(***************************************************************************)
MaxTicks == 300

NextRing == FrameIdle(MaxTicks)

SpecRing == Init /\ [][NextRing]_vars

(***************************************************************************)
(* Function::execute on its own: one call on arguments drawn from the      *)
(* values below.                                                           *)
(***************************************************************************)
ExecuteFunctions ==
    {Exact}
    \cup {Lerp(x) : x \in {Hundredth, Tenth, Half, One}}
    \cup {DamperBad(x) : x \in {Hundredth, Five, Twenty}}
    \cup {DamperExact(x) : x \in {Hundredth, Half, One}}
    \cup {DamperExact2(x) : x \in {Hundredth, One, Thirty}}

ExecuteValues == {Zero, FromInt(77), FromInt(100), FromInt(300), FromInt(600)}

ExecuteTimes == {Zero, Thousandth, Div(One, Sixty), One, Thousand}

InitExec ==
    /\ InitMain
    /\ call \in [op : {"execute"}, f : ExecuteFunctions, from : ExecuteValues,
                 to : ExecuteValues, dt : ExecuteTimes, done : {FALSE}]

ApplyExecute ==
    /\ call.op = "execute"
    /\ ~call.done
    /\ call' = [op |-> "execute", f |-> call.f, from |-> call.from, to |-> call.to,
                dt |-> call.dt, done |-> TRUE,
                out |-> execute(call.f, call.from, call.to, call.dt)]
    /\ UNCHANGED <<goal, value, mode, target_fps, history, sim, mouse, event,
                   frames, ticks, origin, edited, entered>>

SpecExec == InitExec /\ [][ApplyExecute]_vars

(***************************************************************************)
(* The Compare arm on its own: the two calls of simulate on settings and a *)
(* function drawn from the values below.                                   *)
(***************************************************************************)
CompareSettingsValues ==
    [first_framerate : {Ten, Fifteen, Sixty},
     second_framerate : {Ten, Fifteen, Sixty},
     simulating_time : {Twentieth, Tenth, Two}]

InitSim ==
    /\ InitMain
    /\ call \in [op : {"compare"}, settings : CompareSettingsValues,
                 f : ExecuteFunctions, done : {FALSE}]

ApplyCompare ==
    /\ call.op = "compare"
    /\ ~call.done
    /\ call' = [op |-> "compare", settings |-> call.settings, f |-> call.f,
                done |-> TRUE, runs |-> CompareRuns(call.settings, call.f)]
    /\ UNCHANGED <<goal, value, mode, target_fps, history, sim, mouse, event,
                   frames, ticks, origin, edited, entered>>

SpecSim == InitSim /\ [][ApplyCompare]_vars

(***************************************************************************)
(* Properties                                                              *)
(***************************************************************************)
\* |x - y|
AbsDiff(x, y) == IF Less(x, y) THEN Sub(y, x) ELSE Sub(x, y)

\* 1e-4f32, the tolerance by which two final values count as different
Tolerance == <<13743895, -37>>

\* floor(x * y) of the exact product, for x, y >= 0
FloorProduct(x, y) ==
    IF x[2] + y[2] >= 0 THEN x[1] * y[1] * Pow2(x[2] + y[2])
    ELSE IF -(x[2] + y[2]) > 30 THEN 0
    ELSE (x[1] * y[1]) \div Pow2(-(x[2] + y[2]))

ExecuteDone == call.op = "execute" /\ call.done

CompareDone == call.op = "compare" /\ call.done

Final(run) == run.values[Len(run.values)]

\* C1: execute(v, v, dt) returns exactly v, for every variant, parameter,
\* value v and dt.
C1_FixedPoint ==
    (ExecuteDone /\ call.from = call.to) => call.out = call.from

C3_RunLength ==
    CompareDone =>
        \A k \in 1..2 :
            /\ call.runs[k].values[1] = ScreenHeight
            /\ Len(call.runs[k].values) =
                  FloorProduct(call.settings.simulating_time, call.runs[k].frame_rate) + 1

\* C4: a run whose step count is 0 collects exactly one value, start, and
\* the plotting loop reads no index outside the values of any run.
C4_Degenerate ==
    CompareDone =>
        \A k \in 1..2 :
            /\ AsU32(call.runs[k].steps) = 0 => call.runs[k].values = <<ScreenHeight>>
            /\ PlotReads(call.runs[k].values) \subseteq 0..(Len(call.runs[k].values) - 1)

C4_Witness ==
    /\ CompareDone
    /\ call.settings.simulating_time = Twentieth
    /\ call.settings.first_framerate = Ten
    /\ call.runs[1].steps = Half
    /\ call.runs[1].values = <<ScreenHeight>>
    /\ PlotReads(call.runs[1].values) = {}

\* C5: history starts as 240 copies of the starting value; after every Live
\* tick it holds 240 values, the newest the value of that tick and the rest
\* the 239 newest of before; after k ticks max(0, 240 - k) entries of the
\* first filling remain; every read of the trace loop is in bounds.
C5_HistoryRing ==
    /\ [](/\ Len(history) = MAX_HISTORY
          /\ ticks = 0 => history = [i \in 1..MAX_HISTORY |-> center]
          /\ ticks > 0 => history[1] = value /\ origin[1] = ticks
          /\ Cardinality({i \in 1..Len(origin) : origin[i] = 0}) = Max(0, MAX_HISTORY - ticks)
          /\ TraceReads \subseteq 0..(Len(history) - 1))
    /\ [][ticks' = ticks + 1 =>
            history' = <<value'>> \o SubSeq(history, 1, MAX_HISTORY - 1)]_vars

C5_Witness ==
    /\ ticks = 300
    /\ Len(history) = MAX_HISTORY
    /\ \A i \in 1..MAX_HISTORY : origin[i] > 0
    /\ history[1] = value

\* C6: sim is always Live or Compare { settings }; it changes between the
\* two only in a frame in which the user selected Live or Compare; whenever
\* it goes from Live to Compare the settings are 60, 15 and 2.0; Live
\* carries no settings, so edits of an earlier Compare do not come back.
C6_ModeMachine ==
    /\ [](\/ sim = Live
          \/ /\ sim.name = "Compare"
             /\ DOMAIN sim = {"name", "settings"}
             /\ DOMAIN sim.settings =
                   {"first_framerate", "second_framerate", "simulating_time"})
    /\ [][/\ sim'.name # sim.name => event' \in {"select_live", "select_compare"}
          /\ (sim.name = "Live" /\ sim'.name = "Compare") =>
                sim'.settings = [first_framerate |-> Sixty,
                                 second_framerate |-> Fifteen,
                                 simulating_time |-> Two]
          /\ sim'.name = "Live" => sim' = Live]_vars

\* Live, Compare with an edit, Live, and Compare again: the defaults are back.
C6_Witness ==
    /\ entered = 2
    /\ edited
    /\ event = "select_compare"
    /\ sim.settings = [first_framerate |-> Sixty, second_framerate |-> Fifteen,
                       simulating_time |-> Two]

\* C7: two runs of equal duration at 60 and at 15 frames a second end more
\* than the tolerance apart, for Lerp with factor 0.01 or 0.1 and DamperBad
\* with damper 0.01 or 5.0 at every duration, and for Lerp with factor 0.5
\* at the durations below 2.0.
C7_FrameRateDependence ==
    (/\ CompareDone
     /\ call.settings.first_framerate = Sixty
     /\ call.settings.second_framerate = Fifteen
     /\ \/ call.f \in {Lerp(Hundredth), Lerp(Tenth), DamperBad(Hundredth), DamperBad(Five)}
        \/ call.f = Lerp(Half) /\ call.settings.simulating_time # Two)
    => Less(Tolerance, AbsDiff(Final(call.runs[1]), Final(call.runs[2])))

\* DamperBad as the program starts it, under the settings Compare starts with.
C7_Witness ==
    /\ CompareDone
    /\ call.settings = [first_framerate |-> Sixty, second_framerate |-> Fifteen,
                        simulating_time |-> Two]
    /\ call.f = DamperBad(Five)
    /\ Len(call.runs[1].values) > Len(call.runs[2].values)
    /\ Less(Hundredth, AbsDiff(Final(call.runs[1]), Final(call.runs[2])))

\* C8, as claimed: right after the user selects another variant, that
\* variant carries the parameter Functions::new gave it.
C8_SwitchResets ==
    [][mode'.selected_index # mode.selected_index =>
          current_function(mode') = FunctionsNew.fns[mode'.selected_index + 1]]_vars

\* C8, amended: selecting another variant changes no parameter of any
\* variant: the variant selected carries what it carried when it was last
\* selected, its edits included.
C8_SwitchKeeps ==
    [][mode'.selected_index # mode.selected_index => mode'.fns = mode.fns]_vars

\* Lerp selected again after its factor was set to 0.1 and another variant
\* was selected.
C8_Witness ==
    /\ event = "select_function"
    /\ frames >= 3
    /\ current_function(mode) = Lerp(Tenth)

\* Two runs, each with the goal g in every step: every value but the first is
\* f executed on the value before it, g and the run's time step.
RunsAimAt(runs, f, g) ==
    /\ Len(runs) = 2
    /\ \A k \in 1..Len(runs) :
          /\ runs[k].goal = g
          /\ \A i \in 1..(Len(runs[k].values) - 1) :
                runs[k].values[i + 1] =
                    execute(f, runs[k].values[i], g, runs[k].time_step)

\* C9: goal changes only in a frame of the Live arm with the right button
\* down, and is then the pointer's height; in Compare both runs aim at the
\* one goal 0.0 in every step.
C9_GoalMutation ==
    /\ [][/\ goal' # goal => sim'.name = "Live" /\ mouse'.down
          /\ (sim'.name = "Live" /\ mouse'.down) => goal' = mouse'.y]_vars
    /\ [](sim.name = "Compare" => RunsAimAt(plots, current_function(mode), Zero))

\* A Compare frame computed after the user moved the goal.
C9_Witness ==
    /\ sim.name = "Compare"
    /\ goal = FromInt(100)
    /\ value # goal
    /\ Len(plots[2].values) > 1

\* C10: a frame of the Compare arm leaves value and history as they are, and
\* a frame of the Live arm computes value from the value before it and
\* pushes it onto the history before it, also right after a Compare frame.
C10_CompareLeavesLive ==
    [][/\ sim'.name = "Compare" => value' = value /\ history' = history
       /\ sim'.name = "Live" =>
            /\ \E dt \in FrameTimes :
                   value' = execute(current_function(mode'), value, goal, dt)
            /\ history' = <<value'>> \o SubSeq(history, 1, MAX_HISTORY - 1)]_vars

\* Back in Live after a Compare frame, with a value that Live frames moved.
C10_Witness ==
    /\ event = "select_live"
    /\ entered = 1
    /\ sim = Live
    /\ value # center
    /\ history[1] = value
    /\ history[2] = value

====
